---- MODULE Spec2Model ----
(***************************************************************************)
(* State-machine model of src/main.py (stackoverflow_expertise.py): the    *)
(* tag catalogue loader, the per-user tag-reputation profiler, the shape   *)
(* classifier, the answer feature extractor and the per-shape regression   *)
(* driver.                                                                 *)
(*                                                                         *)
(* Text is modelled as a sequence of lexical tokens (one-character strings *)
(* for tag names and tag attributes, markup tokens for answer bodies and   *)
(* link targets), so that the regular expressions and prefix tests of the  *)
(* source are computed rather than assumed.  Shares v / total are compared *)
(* with the decimal thresholds by integer cross-multiplication; for the    *)
(* integer gains reachable here this agrees with the IEEE doubles of the   *)
(* source (v / total is correctly rounded and the thresholds are the       *)
(* doubles nearest to the decimals).                                       *)
(***************************************************************************)
EXTENDS Integers, Sequences, FiniteSets, TLC

VARIABLES
    pc,            \* the stage of the script that runs next
    tags_xml,      \* the rows of Tags.xml
    TOP_TAGS,      \* the tag allowlist
    user_rep,      \* user id -> reputation, for users at or above the floor
    user_tags,     \* user id -> tag -> gain
    user_shape,    \* user id -> shape, for classified users
    shape_counts,  \* shape -> number of users
    p,             \* the post row of the current loop iteration
    nread,         \* rows consumed so far by the current loop over a file
    answer_df,     \* the rows of the answer table
    body,          \* the body of the answer being parsed
    feats,         \* the features of the answer being parsed
    X,             \* the design matrix, one 0/1 row per answer
    y,             \* the binary label of each answer
    shapes,        \* the shape categories present in the answer table
    fit_i,         \* how many shape categories the regression loop has visited
    results,       \* shape -> named coefficients
    table          \* the printed coefficient table

vars == <<pc, tags_xml, TOP_TAGS, user_rep, user_tags, user_shape, shape_counts,
          p, nread, answer_df, body, feats, X, y, shapes, fit_i, results, table>>

(* ---------------------------------------------------------------------- *)
(* Configuration (src/main.py lines 33-37)                                 *)
(* ---------------------------------------------------------------------- *)
TOP_N_TAGS == 100
MIN_REPUTATION == 100
MIN_CODE_LINES == 5
WORD_THRESHOLD_SHORT == 150
WORD_THRESHOLD_LONG == 400

(* Variant: the regression loop skips a segment of exactly 100 answers.    *)
MinSegmentSize_OffByOne == 101

MinSegmentSize == 100

(* The None returned by classify_shape, and a dictionary with no entries   *)
(* (also an XML row that carries no attribute).                            *)
None == "None"
EmptyDict == [k \in {} |-> 0]

(* ---------------------------------------------------------------------- *)
(* Bounds of the checked instances                                         *)
(* ---------------------------------------------------------------------- *)
MaxTagRecs == 3       \* tag records of an exhaustively enumerated stream
MaxTagCount == 2      \* largest usage count of an enumerated tag record
MaxUsers == 2         \* user rows read, and largest user id
MaxPosts == 2         \* post rows read by each pass over the posts
MaxScore == 2         \* largest post score
MaxBodyLen == 3       \* tokens of an exhaustively enumerated answer body
MaxTargetLen == 4     \* tokens of an enumerated link target
MaxPairScore == 89    \* largest gain unit in a one- or two-tag profile
MaxFewTags == 5       \* tags of an exhaustively enumerated small profile
MaxFewScore == 7      \* largest gain unit in a small profile
MaxManyTags == 11     \* tags of a broad profile
MaxTopScore == 10     \* largest gain unit of the leading tag of a broad profile
MaxSegment == 101     \* largest number of answers of one shape in a table
MaxFitShapes == 2     \* shapes that have answers in an enumerated table

(* ---------------------------------------------------------------------- *)
(* Sequence helpers                                                        *)
(* ---------------------------------------------------------------------- *)
Range(s) == {s[i] : i \in DOMAIN s}

Max2(a, b) == IF a >= b THEN a ELSE b

Min2(a, b) == IF a <= b THEN a ELSE b

(* s.startswith(prefix)                                                    *)
StartsWith(s, prefix) ==
    /\ Len(s) >= Len(prefix)
    /\ \A i \in 1..Len(prefix) : s[i] = prefix[i]

(* An XML row is a function from the attributes it carries to their        *)
(* values.  row.get(field) is None exactly when the attribute is absent.   *)
Has(row, field) == field \in DOMAIN row

(* row.get(field, default)                                                 *)
Get(row, field, default) == IF Has(row, field) THEN row[field] ELSE default

(* ---------------------------------------------------------------------- *)
(* 1. load_top_tags (lines 42-51)                                          *)
(* ---------------------------------------------------------------------- *)

(* Variant: a merge that lets the right run go first on equal counts.      *)
Merge_RightFirst(a, b) ==
    LET posA(i) == i + Cardinality({j \in DOMAIN b : b[j].count >= a[i].count})
        posB(j) == j + Cardinality({i \in DOMAIN a : a[i].count > b[j].count})
    IN  [k \in 1..(Len(a) + Len(b)) |->
            IF \E i \in DOMAIN a : posA(i) = k
            THEN a[CHOOSE i \in DOMAIN a : posA(i) = k]
            ELSE b[CHOOSE j \in DOMAIN b : posB(j) = k]]

(* list.sort(key=lambda x: -x[1]) is a stable merge sort by count          *)
(* descending.  Merging two sorted runs: an element of the left run goes   *)
(* after the right elements of greater count, an element of the right run  *)
(* after the left elements of greater or equal count.                      *)
Merge(a, b) ==
    LET posA(i) == i + Cardinality({j \in DOMAIN b : b[j].count > a[i].count})
        posB(j) == j + Cardinality({i \in DOMAIN a : a[i].count >= b[j].count})
    IN  [k \in 1..(Len(a) + Len(b)) |->
            IF \E i \in DOMAIN a : posA(i) = k
            THEN a[CHOOSE i \in DOMAIN a : posA(i) = k]
            ELSE b[CHOOSE j \in DOMAIN b : posB(j) = k]]

RECURSIVE SortTags(_)
SortTags(recs) ==
    IF Len(recs) <= 1 THEN recs
    ELSE LET h == Len(recs) \div 2
         IN  Merge(SortTags(SubSeq(recs, 1, h)), SortTags(SubSeq(recs, h + 1, Len(recs))))

load_top_tags(rows) ==
    LET tags == SortTags([i \in DOMAIN rows |->
                            [name |-> rows[i].TagName, count |-> Get(rows[i], "Count", 0)]])
        kept == SubSeq(tags, 1, Min2(TOP_N_TAGS, Len(tags)))
    IN  [i \in 1..Len(kept) |-> kept[i].name]

(* ---------------------------------------------------------------------- *)
(* 2. build_tag_reputation (lines 59-101)                                  *)
(* ---------------------------------------------------------------------- *)

(* re.findall(r"<([^>]+)>", tags), scanning from position i: a match is a  *)
(* "<", one or more characters other than ">", and the next ">".           *)
RECURSIVE FindTagsFrom(_, _)
FindTagsFrom(s, i) ==
    IF i > Len(s) THEN <<>>
    ELSE IF s[i] # "<" THEN FindTagsFrom(s, i + 1)
    ELSE LET closers == {j \in (i + 1)..Len(s) : s[j] = ">"}
         IN  IF closers = {} THEN FindTagsFrom(s, i + 1)
             ELSE LET j == CHOOSE k \in closers : \A m \in closers : k <= m
                  IN  IF j = i + 1 THEN FindTagsFrom(s, i + 1)
                      ELSE <<SubSeq(s, i + 1, j - 1)>> \o FindTagsFrom(s, j + 1)

(* [t for t in post_tags if t in TOP_TAGS]                                 *)
AllowedTags(post_tags, allow) ==
    SelectSeq(post_tags, LAMBDA t : t \in Range(allow))

(* rep_gain = max(score * 10, 0)                                           *)
rep_gain(score) == Max2(score * 10, 0)

(* Counter[t] += g                                                         *)
AddGain(cnt, t, g) ==
    IF t \in DOMAIN cnt THEN [cnt EXCEPT ![t] = @ + g] ELSE cnt @@ (t :> g)

(* for t in post_tags: user_tags[uid][t] += rep_gain                       *)
RECURSIVE AddGains(_, _, _)
AddGains(cnt, post_tags, g) ==
    IF post_tags = <<>> THEN cnt
    ELSE AddGains(AddGain(cnt, Head(post_tags), g), Tail(post_tags), g)

(* Variant: the second pass without the test "uid not in user_rep".        *)
ProfileAfter_NoFloor(post, rep, profiles, allow) ==
    IF ~Has(post, "OwnerUserId") THEN profiles
    ELSE IF ~Has(post, "Tags") \/ post.Tags = <<>> THEN profiles
    ELSE LET uid == post.OwnerUserId
             post_tags == AllowedTags(FindTagsFrom(post.Tags, 1), allow)
             old == IF uid \in DOMAIN profiles THEN profiles[uid] ELSE EmptyDict
             new == AddGains(old, post_tags, rep_gain(Get(post, "Score", 0)))
         IN  IF post_tags = <<>> THEN profiles
             ELSE [u \in DOMAIN profiles \cup {uid} |->
                      IF u = uid THEN new ELSE profiles[u]]

(* The body of the second-pass loop for one post row.                      *)
ProfileAfter(post, rep, profiles, allow) ==
    IF ~Has(post, "OwnerUserId") THEN profiles
    ELSE IF post.OwnerUserId \notin DOMAIN rep THEN profiles
    ELSE IF ~Has(post, "Tags") \/ post.Tags = <<>> THEN profiles
    ELSE LET uid == post.OwnerUserId
             post_tags == AllowedTags(FindTagsFrom(post.Tags, 1), allow)
             old == IF uid \in DOMAIN profiles THEN profiles[uid] ELSE EmptyDict
             new == AddGains(old, post_tags, rep_gain(Get(post, "Score", 0)))
         IN  IF post_tags = <<>> THEN profiles
             ELSE [u \in DOMAIN profiles \cup {uid} |->
                      IF u = uid THEN new ELSE profiles[u]]

(* ---------------------------------------------------------------------- *)
(* 3. classify_shape (lines 110-138)                                       *)
(* ---------------------------------------------------------------------- *)

(* sorted(tag_counter.items(), key=lambda x: -x[1]), keeping the gains.    *)
(* The order among equal gains does not reach percs.                       *)
RECURSIVE SortedGains(_, _)
SortedGains(cnt, keys) ==
    IF keys = {} THEN <<>>
    ELSE LET t == CHOOSE k \in keys : \A m \in keys : cnt[k] >= cnt[m]
         IN  <<cnt[t]>> \o SortedGains(cnt, keys \ {t})

RECURSIVE SumSeq(_)
SumSeq(s) == IF s = <<>> THEN 0 ELSE Head(s) + SumSeq(Tail(s))

(* v / total >= pct / 100 and v / total <= pct / 100                       *)
ShareGE(v, total, pct) == 100 * v >= pct * total

ShareLE(v, total, pct) == 100 * v <= pct * total

(* Variants: an I rule that fires from a half share, and a T rule that     *)
(* accepts ten tags.                                                       *)
RuleI_Half(items, total) == ShareGE(items[1], total, 50)

RuleT_TenTags(items, total) ==
    /\ ShareGE(items[1], total, 50)
    /\ ShareLE(items[1], total, 70)
    /\ Len(items) >= 10

(* The four rule conditions of lines 121, 125, 129-130 and 134-135, over   *)
(* the gains sorted descending and their total.                            *)
RuleI(items, total) == ShareGE(items[1], total, 90)

RuleT(items, total) ==
    /\ ShareGE(items[1], total, 50)
    /\ ShareLE(items[1], total, 70)
    /\ Len(items) >= 11

RulePi(items, total) ==
    /\ Len(items) >= 2
    /\ ShareGE(items[1], total, 30) /\ ShareLE(items[1], total, 45)
    /\ ShareGE(items[2], total, 30) /\ ShareLE(items[2], total, 45)
    /\ ShareGE(items[1] + items[2], total, 70)

RuleComb(items, total) ==
    LET top5 == SubSeq(items, 1, Min2(5, Len(items)))
        inband == {i \in 1..Len(top5) :
                      ShareGE(top5[i], total, 15) /\ ShareLE(top5[i], total, 25)}
    IN  /\ 3 <= Cardinality(inband) /\ Cardinality(inband) <= 5
        /\ ShareLE(items[1], total, 30)

classify_shape(tag_counter) ==
    IF DOMAIN tag_counter = {} THEN None
    ELSE LET items == SortedGains(tag_counter, DOMAIN tag_counter)
             total == SumSeq(items)
         IN  IF total = 0 THEN None
             ELSE IF RuleI(items, total) THEN "I"
             ELSE IF RuleT(items, total) THEN "T"
             ELSE IF RulePi(items, total) THEN "Pi"
             ELSE IF RuleComb(items, total) THEN "Comb"
             ELSE None

(* The classification loop (lines 140-146): user_shape and shape_counts.   *)
ShapesOf(profiles) ==
    LET classified == {u \in DOMAIN profiles : classify_shape(profiles[u]) # None}
    IN  [u \in classified |-> classify_shape(profiles[u])]

CountsOf(shape_of) ==
    [sh \in Range(shape_of) |-> Cardinality({u \in DOMAIN shape_of : shape_of[u] = sh})]

(* ---------------------------------------------------------------------- *)
(* 4. answer_features (lines 155-181)                                      *)
(* ---------------------------------------------------------------------- *)

(* Tokens of an answer body.  "w" is one word character; the markup and    *)
(* link tokens stand for exactly the characters they spell.                *)
WordTok == "w"
SpaceTok == " "
NewlineTok == "\n"
CodeOpen == "<code>"
CodeClose == "</code>"
ImgTok == "<img"
AnchorTok == "<a href="
QuoteTok == "\""
HttpsTok == "https:"
HttpTok == "http:"
SlashesTok == "//"
SiteTok == "stackoverflow.com"
OtherHostTok == "example.org"
PathTok == "/q"

(* Does the token begin / end with a character of \w, and how many        *)
(* maximal \w runs does it contain.                                        *)
StartsWord(tok) == tok \in {WordTok, HttpsTok, HttpTok, SiteTok, OtherHostTok}

EndsWord(tok) == tok \in {WordTok, ImgTok, SiteTok, OtherHostTok, PathTok}

WordsIn(tok) ==
    CASE tok \in {SpaceTok, NewlineTok, QuoteTok, SlashesTok} -> 0
      [] tok \in {AnchorTok, SiteTok, OtherHostTok} -> 2
      [] OTHER -> 1

(* len(re.findall(r"\w+", body)): the runs inside the tokens, less one for *)
(* every run that continues across a token boundary.                       *)
SumWords(b) ==
    Cardinality({i \in DOMAIN b : WordsIn(b[i]) >= 1})
      + Cardinality({i \in DOMAIN b : WordsIn(b[i]) >= 2})

WordCount(b) ==
    SumWords(b)
      - Cardinality({i \in 1..(Len(b) - 1) : EndsWord(b[i]) /\ StartsWord(b[i + 1])})

LengthBucket(words) ==
    IF words > WORD_THRESHOLD_LONG THEN "Long"
    ELSE IF words < WORD_THRESHOLD_SHORT THEN "Summarized"
    ELSE "Medium"

(* The position of the first token equal to tok at or after i, or 0.       *)
FirstAt(b, tok, i) ==
    LET hits == {j \in i..Len(b) : b[j] = tok}
    IN  IF hits = {} THEN 0 ELSE CHOOSE j \in hits : \A m \in hits : j <= m

(* re.findall(r"<code>(.*?)</code>", body, re.DOTALL) from position i.     *)
RECURSIVE CodeBlocksFrom(_, _)
CodeBlocksFrom(b, i) ==
    LET open == FirstAt(b, CodeOpen, i)
        close == IF open = 0 THEN 0 ELSE FirstAt(b, CodeClose, open + 1)
    IN  IF open = 0 \/ close = 0 THEN <<>>
        ELSE <<SubSeq(b, open + 1, close - 1)>> \o CodeBlocksFrom(b, close + 1)

(* len(cb.splitlines()): a final line break ends the last line and does    *)
(* not open another.                                                       *)
LineCount(cb) ==
    Cardinality({i \in 1..Len(cb) : cb[i] = NewlineTok})
      + (IF cb = <<>> \/ cb[Len(cb)] = NewlineTok THEN 0 ELSE 1)

HasCode(b) ==
    LET code_blocks == CodeBlocksFrom(b, 1)
    IN  \E k \in 1..Len(code_blocks) : LineCount(code_blocks[k]) >= MIN_CODE_LINES

(* re.search(r"<img\s", body)                                              *)
HasImage(b) ==
    \E i \in 1..(Len(b) - 1) : b[i] = ImgTok /\ b[i + 1] \in {SpaceTok, NewlineTok}

(* re.findall(r'<a href="([^"]+)"', body) from position i.                 *)
RECURSIVE LinksFrom(_, _)
LinksFrom(b, i) ==
    LET opens == {j \in i..(Len(b) - 1) : b[j] = AnchorTok /\ b[j + 1] = QuoteTok}
        open == IF opens = {} THEN 0 ELSE CHOOSE j \in opens : \A m \in opens : j <= m
        close == IF open = 0 THEN 0 ELSE FirstAt(b, QuoteTok, open + 2)
    IN  IF open = 0 THEN <<>>
        ELSE IF close = 0 \/ close = open + 2 THEN LinksFrom(b, open + 1)
        ELSE <<SubSeq(b, open + 2, close - 1)>> \o LinksFrom(b, close + 1)

HttpsSitePrefix == <<HttpsTok, SlashesTok, SiteTok>>
RelativeSitePrefix == <<SlashesTok, SiteTok>>

(* not link.startswith("https://stackoverflow.com") and                    *)
(* not link.startswith("//stackoverflow.com")                              *)
IsExternal(link) ==
    ~StartsWith(link, HttpsSitePrefix) /\ ~StartsWith(link, RelativeSitePrefix)

HasRef(b) ==
    LET links == LinksFrom(b, 1)
    IN  \E k \in 1..Len(links) : IsExternal(links[k])

answer_features(b) ==
    IF b = <<>> THEN EmptyDict
    ELSE [length |-> LengthBucket(WordCount(b)),
          has_code |-> HasCode(b),
          has_image |-> HasImage(b),
          has_ref |-> HasRef(b),
          word_count |-> WordCount(b)]

(* The row appended for an answer (lines 198-208): feats.update(...).      *)
AnswerRow(post, ft, shape_of) ==
    ft @@ [answer_id |-> post.Id,
           owner_id |-> post.OwnerUserId,
           shape |-> shape_of[post.OwnerUserId],
           upvotes |-> Get(post, "Score", 0),
           accepted |-> (Get(post, "AcceptedAnswerId", 0) = post.Id)]

(* Variant: the answer loop without the test of PostTypeId.                *)
IsParsed_AnyType(post, shape_of) ==
    /\ Has(post, "OwnerUserId")
    /\ post.OwnerUserId \in DOMAIN shape_of

(* Does the loop over the posts (lines 187-208) reach feature extraction   *)
(* for this row.                                                           *)
IsParsed(post, shape_of) ==
    /\ Get(post, "PostTypeId", 0) = 2
    /\ Has(post, "OwnerUserId")
    /\ post.OwnerUserId \in DOMAIN shape_of

(* ---------------------------------------------------------------------- *)
(* 5. The regression table (lines 210-227)                                 *)
(* ---------------------------------------------------------------------- *)
feat_cols == <<"length", "has_code", "has_image", "has_ref">>

(* answers["preferred"] = (answers["upvotes"] > 0) | answers["accepted"]   *)
Preferred(row) == row.upvotes > 0 \/ row.accepted

(* A column of the frame is absent when no row carries the key; a row      *)
(* without the key holds NaN in a column that exists.                      *)
FrameColumns(rows) == UNION {DOMAIN rows[i] : i \in DOMAIN rows}

HasNaN(rows, f) == \E i \in DOMAIN rows : f \notin DOMAIN rows[i]

(* The levels of a column in sorted order, written as pandas names them.   *)
LevelOrder(f) ==
    IF f = "length" THEN <<"Long", "Medium", "Summarized">> ELSE <<"False", "True">>

LevelOf(row, f) ==
    IF f = "length" THEN row[f] ELSE IF row[f] THEN "True" ELSE "False"

(* get_dummies encodes the columns of object dtype: the strings of length, *)
(* and a boolean column that also holds NaN.                               *)
IsEncoded(rows, f) == f = "length" \/ HasNaN(rows, f)

PresentLevels(rows, f) ==
    {LevelOf(rows[i], f) : i \in {j \in DOMAIN rows : f \in DOMAIN rows[j]}}

(* drop_first=True: every present level but the first in sorted order.     *)
KeptLevels(rows, f) ==
    LET order == LevelOrder(f)
        present == {k \in DOMAIN order : order[k] \in PresentLevels(rows, f)}
    IN  {order[k] : k \in {m \in present : \E n \in present : n < m}}

(* The columns of X: <<feature, level>> for an indicator, <<feature, "">>  *)
(* for a boolean column passed through.                                    *)
DesignColumns(rows) ==
    UNION {IF IsEncoded(rows, feat_cols[k])
              THEN {<<feat_cols[k], lv>> : lv \in KeptLevels(rows, feat_cols[k])}
              ELSE {<<feat_cols[k], "">>} : k \in DOMAIN feat_cols}

DesignCell(row, col) ==
    IF col[1] \notin DOMAIN row THEN 0
    ELSE IF col[2] = "" THEN (IF row[col[1]] THEN 1 ELSE 0)
    ELSE IF LevelOf(row, col[1]) = col[2] THEN 1 ELSE 0

(* X = pd.get_dummies(answers[feat_cols], drop_first=True).astype(int)     *)
DesignMatrix(rows) ==
    LET cols == DesignColumns(rows)
    IN  [i \in DOMAIN rows |-> [col \in cols |-> DesignCell(rows[i], col)]]

(* answers["shape"].cat.categories: the shapes present, sorted.            *)
ShapeOrder == <<"Comb", "I", "Pi", "T">>

Categories(rows) ==
    SelectSeq(ShapeOrder, LAMBDA sh : \E i \in DOMAIN rows : rows[i].shape = sh)

(* ---------------------------------------------------------------------- *)
(* 6. One regression per shape (lines 232-261)                             *)
(* ---------------------------------------------------------------------- *)

(* mask.sum()                                                              *)
SegmentSize(rows, sh) == Cardinality({i \in DOMAIN rows : rows[i].shape = sh})

(* The table label of a column of X, or "" when the chain of substring     *)
(* tests names none.                                                       *)
LabelOf(col) ==
    IF col[1] = "length"
    THEN (IF col[2] = "Long" THEN "Answer Length (Long)"
          ELSE IF col[2] = "Summarized" THEN "Answer Length (Summ.)"
          ELSE "")
    ELSE IF col[1] = "has_code" THEN "Includes Code"
    ELSE IF col[1] = "has_image" THEN "Includes Image"
    ELSE "Includes Reference"

(* round(v, 3) of a coefficient held in units of 0.0001, half to even.     *)
Round3(v) ==
    LET q == v \div 10
        r == v % 10
    IN  IF r < 5 THEN 10 * q
        ELSE IF r > 5 THEN 10 * (q + 1)
        ELSE IF q % 2 = 0 THEN 10 * q ELSE 10 * (q + 1)

(* The row of named coefficients built from clf.coef_[0].                  *)
ResultRow(cols, coef) ==
    LET labelled == {c \in cols : LabelOf(c) # ""}
    IN  [lab \in {LabelOf(c) : c \in labelled} |->
            Round3(coef[CHOOSE c \in labelled : LabelOf(c) = lab])]

(* ---------------------------------------------------------------------- *)
(* 7. The printed table (lines 266-272)                                    *)
(* ---------------------------------------------------------------------- *)
ReportColumns ==
    <<"Answer Length (Long)", "Answer Length (Summ.)",
      "Includes Code", "Includes Image", "Includes Reference">>

(* pd.DataFrame(results).T.reindex(columns=[...]): a cell is <<v>>, or    *)
(* <<>> for NaN.                                                           *)
ReportTable(res) ==
    [sh \in DOMAIN res |->
        [lab \in Range(ReportColumns) |->
            IF lab \in DOMAIN res[sh] THEN <<res[sh][lab]>> ELSE <<>>]]

(* ---------------------------------------------------------------------- *)
(* Inputs of the checked instances                                         *)
(* ---------------------------------------------------------------------- *)

(* The tag named by i copies of one letter, and one-letter tag names.      *)
LongName(i) == [j \in 1..i |-> "a"]

TagA == <<"a">>
TagB == <<"b">>
TagC == <<"c">>
TagD == <<"d">>

TagRow(name, count) == [TagName |-> name, Count |-> count]

(* The Tags attribute of a post that carries the given tag names.          *)
RECURSIVE TagsAttr(_)
TagsAttr(names) ==
    IF names = <<>> THEN <<>>
    ELSE <<"<">> \o Head(names) \o <<">">> \o TagsAttr(Tail(names))

(* Tags.xml contents read by the whole pipeline.                           *)
PipelineTagStreams ==
    { <<>>,
      <<TagRow(TagB, 1), TagRow(TagA, 2)>>,
      <<TagRow(TagA, 2), TagRow(TagB, 2), TagRow(TagC, 1), TagRow(TagD, 1)>> }

(* Rows of Users.xml.                                                      *)
UserInputs ==
    [Id : 1..MaxUsers,
     Reputation : {50, MIN_REPUTATION - 1, MIN_REPUTATION}]

(* Optional attributes: the attribute is absent, or holds one of vals.     *)
Optional(field, vals) == {EmptyDict} \cup {field :> v : v \in vals}

TagsAttrInputs ==
    { <<>>, TagsAttr(<<TagA, TagB>>), TagsAttr(<<TagC>>),
      TagsAttr(<<TagA, TagB, TagC, TagD>>), <<"<", "<", "a", ">">> }

(* Rows of Posts.xml: questions carry tags, answers carry a body.          *)
QuestionInputs ==
    { [Id |-> 1, PostTypeId |-> 1] @@ o @@ t @@ sc :
        o \in Optional("OwnerUserId", 1..MaxUsers),
        t \in Optional("Tags", TagsAttrInputs),
        sc \in Optional("Score", {-1} \cup 1..MaxScore) }

AnswerInputs ==
    { [Id |-> 2, PostTypeId |-> 2] @@ o @@ b @@ sc :
        o \in Optional("OwnerUserId", 1..MaxUsers),
        b \in Optional("Body", {<<>>, <<WordTok>>}),
        sc \in {[Score |-> 1], [Score |-> -1, AcceptedAnswerId |-> 2]} }

(* What each pass over Posts.xml is given: an attribute the pass never     *)
(* reads is held absent.                                                   *)
ProfilePassInputs ==
    QuestionInputs \cup {a \in AnswerInputs : ~Has(a, "Body")}

AnswerPassInputs ==
    AnswerInputs \cup {q \in QuestionInputs : ~Has(q, "Tags")}

(* ---------------------------------------------------------------------- *)
(* The script as a state machine                                           *)
(* ---------------------------------------------------------------------- *)
Init ==
    /\ pc = "load_tags"
    /\ tags_xml \in PipelineTagStreams
    /\ TOP_TAGS = <<>>
    /\ user_rep = EmptyDict
    /\ user_tags = EmptyDict
    /\ user_shape = EmptyDict
    /\ shape_counts = EmptyDict
    /\ p = EmptyDict
    /\ nread = 0
    /\ answer_df = <<>>
    /\ body = <<>>
    /\ feats = EmptyDict
    /\ X = <<>>
    /\ y = <<>>
    /\ shapes = <<>>
    /\ fit_i = 0
    /\ results = EmptyDict
    /\ table = EmptyDict

(* TOP_TAGS = load_top_tags()  (line 53)                                   *)
LoadTags ==
    /\ pc = "load_tags"
    /\ TOP_TAGS' = load_top_tags(tags_xml)
    /\ pc' = "users"
    /\ UNCHANGED <<tags_xml, user_rep, user_tags, user_shape, shape_counts, p, nread,
                   answer_df, body, feats, X, y, shapes, fit_i, results, table>>

(* One iteration of the first pass (lines 67-71).                          *)
ReadUser ==
    /\ pc = "users"
    /\ nread < MaxUsers
    /\ \E u \in UserInputs :
          user_rep' = IF u.Reputation >= MIN_REPUTATION
                         THEN [k \in DOMAIN user_rep \cup {u.Id} |->
                                  IF k = u.Id THEN u.Reputation ELSE user_rep[k]]
                         ELSE user_rep
    /\ nread' = nread + 1
    /\ UNCHANGED <<pc, tags_xml, TOP_TAGS, user_tags, user_shape, shape_counts, p,
                   answer_df, body, feats, X, y, shapes, fit_i, results, table>>

(* Users.xml is exhausted; the second pass opens Posts.xml (lines 74-76).  *)
EndUsers ==
    /\ pc = "users"
    /\ pc' = "posts"
    /\ nread' = 0
    /\ UNCHANGED <<tags_xml, TOP_TAGS, user_rep, user_tags, user_shape, shape_counts,
                   p, answer_df, body, feats, X, y, shapes, fit_i, results, table>>

(* One iteration of the second pass (lines 76-99).                         *)
ProfilePost ==
    /\ pc = "posts"
    /\ nread < MaxPosts
    /\ \E post \in ProfilePassInputs :
          /\ p' = post
          /\ user_tags' = ProfileAfter(post, user_rep, user_tags, TOP_TAGS)
    /\ nread' = nread + 1
    /\ UNCHANGED <<pc, tags_xml, TOP_TAGS, user_rep, user_shape, shape_counts,
                   answer_df, body, feats, X, y, shapes, fit_i, results, table>>

(* Posts.xml is exhausted: build_tag_reputation returns (its local p goes  *)
(* out of scope), and the classification loop runs over every profile      *)
(* (lines 140-146).                                                        *)
ClassifyUsers ==
    /\ pc = "posts"
    /\ user_shape' = ShapesOf(user_tags)
    /\ shape_counts' = CountsOf(ShapesOf(user_tags))
    /\ pc' = "answers"
    /\ p' = EmptyDict
    /\ nread' = 0
    /\ UNCHANGED <<tags_xml, TOP_TAGS, user_rep, user_tags,
                   answer_df, body, feats, X, y, shapes, fit_i, results, table>>

(* One iteration of the answer loop (lines 187-208).                       *)
ParseAnswer ==
    /\ pc = "answers"
    /\ nread < MaxPosts
    /\ \E post \in AnswerPassInputs :
          /\ p' = post
          /\ IF IsParsed(post, user_shape)
                THEN /\ body' = Get(post, "Body", <<>>)
                     /\ feats' = AnswerRow(post, answer_features(body'), user_shape)
                     /\ answer_df' = Append(answer_df, feats')
                ELSE UNCHANGED <<body, feats, answer_df>>
    /\ nread' = nread + 1
    /\ UNCHANGED <<pc, tags_xml, TOP_TAGS, user_rep, user_tags, user_shape,
                   shape_counts, X, y, shapes, fit_i, results, table>>

(* Posts.xml is exhausted (line 210).                                      *)
EndAnswers ==
    /\ pc = "answers"
    /\ pc' = "frame"
    /\ UNCHANGED <<tags_xml, TOP_TAGS, user_rep, user_tags, user_shape, shape_counts,
                   p, nread, answer_df, body, feats, X, y, shapes, fit_i, results, table>>

(* Coefficients a fit may return, in units of 0.0001; the solver is a      *)
(* black box that returns one coefficient per column.                      *)
CoefInputs == {-15, 1234}

FitOutcomes(cols) == {[c \in cols |-> v] : v \in CoefInputs}

(* Lines 210-227.  pd.DataFrame([]) has no columns, so answers["upvotes"]  *)
(* raises KeyError (line 217); answers[feat_cols] raises KeyError when no  *)
(* row carries the feature keys (line 221).                                *)
BuildFrame ==
    /\ pc = "frame"
    /\ IF answer_df = <<>> \/ ~(Range(feat_cols) \subseteq FrameColumns(answer_df))
          THEN /\ pc' = "error"
               /\ UNCHANGED <<X, y, shapes>>
          ELSE /\ X' = DesignMatrix(answer_df)
               /\ y' = [i \in DOMAIN answer_df |->
                           IF Preferred(answer_df[i]) THEN 1 ELSE 0]
               /\ shapes' = Categories(answer_df)
               /\ pc' = "fit"
    /\ UNCHANGED <<tags_xml, TOP_TAGS, user_rep, user_tags, user_shape, shape_counts,
                   p, nread, answer_df, body, feats, fit_i, results, table>>

(* One iteration of the regression loop (lines 233-261).                   *)
FitShape ==
    /\ pc = "fit"
    /\ fit_i < Len(shapes)
    /\ LET shape == shapes[fit_i + 1]
       IN  IF SegmentSize(answer_df, shape) < MinSegmentSize
              THEN UNCHANGED results
              ELSE \E coef \in FitOutcomes(DOMAIN X[1]) :
                      results' = [sh \in DOMAIN results \cup {shape} |->
                                     IF sh = shape THEN ResultRow(DOMAIN X[1], coef)
                                     ELSE results[sh]]
    /\ fit_i' = fit_i + 1
    /\ UNCHANGED <<pc, tags_xml, TOP_TAGS, user_rep, user_tags, user_shape,
                   shape_counts, p, nread, answer_df, body, feats, X, y, shapes, table>>

(* The loop is over: the table is assembled and printed (lines 266-283).   *)
PrintTable ==
    /\ pc = "fit"
    /\ fit_i = Len(shapes)
    /\ table' = ReportTable(results)
    /\ pc' = "done"
    /\ UNCHANGED <<tags_xml, TOP_TAGS, user_rep, user_tags, user_shape, shape_counts,
                   p, nread, answer_df, body, feats, X, y, shapes, fit_i, results>>

Next ==
    \/ LoadTags
    \/ ReadUser
    \/ EndUsers
    \/ ProfilePost
    \/ ClassifyUsers
    \/ ParseAnswer
    \/ EndAnswers
    \/ BuildFrame
    \/ FitShape
    \/ PrintTable

Spec == Init /\ [][Next]_vars

(* ---------------------------------------------------------------------- *)
(* load_top_tags on enumerated tag streams                                 *)
(* ---------------------------------------------------------------------- *)
TagRowInputs ==
    {TagRow(n, c) : n \in {TagA, TagB}, c \in 0..MaxTagCount} \cup {[TagName |-> TagC]}

(* A stream of n distinct tags whose counts cycle through 0..m-1.          *)
LongStream(n, m) == [i \in 1..n |-> TagRow(LongName(i), i % m)]

(* The state before anything but the tag file has been touched.            *)
NothingRead ==
    /\ TOP_TAGS = <<>>
    /\ user_rep = EmptyDict
    /\ user_tags = EmptyDict
    /\ user_shape = EmptyDict
    /\ shape_counts = EmptyDict
    /\ p = EmptyDict
    /\ nread = 0

NothingParsed ==
    /\ answer_df = <<>>
    /\ body = <<>>
    /\ feats = EmptyDict

NothingFitted ==
    /\ X = <<>>
    /\ y = <<>>
    /\ shapes = <<>>
    /\ fit_i = 0
    /\ results = EmptyDict
    /\ table = EmptyDict

InitTags ==
    /\ pc = "load_tags"
    /\ \/ \E n \in 0..MaxTagRecs : tags_xml \in [1..n -> TagRowInputs]
       \/ \E n \in (TOP_N_TAGS - 1)..(TOP_N_TAGS + MaxTagRecs), m \in 1..(MaxTagCount + 1) :
             tags_xml = LongStream(n, m)
    /\ NothingRead /\ NothingParsed /\ NothingFitted

NextTags == LoadTags

SpecTags == InitTags /\ [][NextTags]_vars

(* ---------------------------------------------------------------------- *)
(* classify_shape on enumerated profiles                                   *)
(* ---------------------------------------------------------------------- *)

(* The profile whose i-th tag has earned units[i] posts' worth of score:   *)
(* every gain is a multiple of 10.                                         *)
ProfileOf(units) ==
    [t \in {LongName(i) : i \in DOMAIN units} |-> 10 * units[Len(t)]]

(* User 1 holds the profile, under the allowlist and tag file that let it. *)
HoldsProfile(units) ==
    /\ user_tags = (1 :> ProfileOf(units))
    /\ TOP_TAGS = [i \in 1..Len(units) |-> LongName(i)]
    /\ tags_xml = [i \in 1..Len(units) |-> TagRow(LongName(i), 1)]

InitClassify ==
    /\ pc = "posts"
    /\ \/ \E n \in 1..2 : \E units \in [1..n -> 0..MaxPairScore] :
             HoldsProfile(units)
       \/ \E n \in 3..MaxFewTags : \E units \in [1..n -> 0..MaxFewScore] :
             HoldsProfile(units)
       \/ \E n \in 10..MaxManyTags, top \in 0..MaxTopScore :
             \E rest \in [1..(n - 1) -> 0..1] : HoldsProfile(<<top>> \o rest)
    /\ user_rep = (1 :> MIN_REPUTATION)
    /\ user_shape = EmptyDict
    /\ shape_counts = EmptyDict
    /\ p = EmptyDict
    /\ nread = MaxPosts
    /\ NothingParsed /\ NothingFitted

NextClassify == ClassifyUsers

SpecClassify == InitClassify /\ [][NextClassify]_vars

(* ---------------------------------------------------------------------- *)
(* answer_features on enumerated bodies                                    *)
(* ---------------------------------------------------------------------- *)
BodyTokens ==
    {WordTok, SpaceTok, NewlineTok, CodeOpen, CodeClose, ImgTok, AnchorTok,
     QuoteTok, HttpsTok, HttpTok, SlashesTok, SiteTok, OtherHostTok, PathTok}

LinkTokens == {HttpsTok, HttpTok, SlashesTok, SiteTok, OtherHostTok, PathTok}

(* The markup of one hyperlink to the target.                              *)
Anchor(target) == <<AnchorTok, QuoteTok>> \o target \o <<QuoteTok>>

(* n words separated by single spaces.                                     *)
WordsBody(n) == [i \in 1..(2 * n - 1) |-> IF i % 2 = 1 THEN WordTok ELSE SpaceTok]

(* A code span of n lines.                                                 *)
CodeBody(n) ==
    <<CodeOpen>> \o [i \in 1..(2 * n - 1) |-> IF i % 2 = 1 THEN WordTok ELSE NewlineTok]
      \o <<CodeClose>>

InitFeatures ==
    /\ pc = "extract"
    /\ tags_xml = <<>>
    /\ NothingRead /\ NothingFitted
    /\ answer_df = <<>>
    /\ \/ \E n \in 0..MaxBodyLen : body \in [1..n -> BodyTokens]
       \/ \E n \in 0..MaxTargetLen : \E t \in [1..n -> LinkTokens] : body = Anchor(t)
       \/ \E n1, n2 \in 0..2 : \E t1 \in [1..n1 -> LinkTokens], t2 \in [1..n2 -> LinkTokens] :
             body = <<WordTok, SpaceTok>> \o Anchor(t1) \o <<SpaceTok>> \o Anchor(t2)
       \/ \E n \in {WORD_THRESHOLD_SHORT - 1, WORD_THRESHOLD_SHORT,
                     WORD_THRESHOLD_LONG, WORD_THRESHOLD_LONG + 1} : body = WordsBody(n)
       \/ \E n \in (MIN_CODE_LINES - 1)..(MIN_CODE_LINES + 1) :
             body = CodeBody(n) \o <<ImgTok, SpaceTok>>
    /\ feats = EmptyDict

(* feats = answer_features(body)  (line 200)                               *)
Extract ==
    /\ pc = "extract"
    /\ feats' = answer_features(body)
    /\ pc' = "extracted"
    /\ UNCHANGED <<tags_xml, TOP_TAGS, user_rep, user_tags, user_shape, shape_counts,
                   p, nread, answer_df, body, X, y, shapes, fit_i, results, table>>

NextFeatures == Extract

SpecFeatures == InitFeatures /\ [][NextFeatures]_vars

(* ---------------------------------------------------------------------- *)
(* The regression stage on enumerated answer tables                        *)
(* ---------------------------------------------------------------------- *)

(* One user per shape, with a profile that the classifier gives the shape.  *)
ShapeUnits ==
    <<  <<1, 1, 1, 1>>,                            \* Comb
        <<1>>,                                     \* I
        <<2, 2, 1>>,                               \* Pi
        <<10, 1, 1, 1, 1, 1, 1, 1, 1, 1, 1>> >>   \* T

FitProfiles(owners) == [u \in owners |-> ProfileOf(ShapeUnits[u])]

(* The features of the four kinds of answer body in a table.               *)
FeatEmpty == answer_features(<<>>)
FeatShort == answer_features(WordsBody(WORD_THRESHOLD_SHORT - 1))
FeatMedium == answer_features(WordsBody(WORD_THRESHOLD_SHORT))
FeatLong == answer_features(WordsBody(WORD_THRESHOLD_LONG + 1) \o CodeBody(MIN_CODE_LINES))

(* The feature kinds that alternate down the rows of a table.              *)
FeatureMixes ==
    { <<FeatShort>>, <<FeatMedium>>, <<FeatLong, FeatMedium>>,
      <<FeatShort, FeatMedium, FeatLong>>, <<FeatEmpty>>,
      <<FeatMedium, FeatEmpty>>, <<FeatLong, FeatShort, FeatEmpty>> }

SegmentSizes == {0} \cup (MinSegmentSize - 1)..MaxSegment

(* Answers per user (user u holds the u-th shape).                         *)
SegmentCounts ==
    {c \in [1..4 -> SegmentSizes] : Cardinality({u \in 1..4 : c[u] > 0}) <= MaxFitShapes}

(* The owner of row j when the users contribute counts[u] rows in turn.    *)
RECURSIVE OwnerOfRow(_, _, _)
OwnerOfRow(counts, j, u) ==
    IF j <= counts[u] THEN u ELSE OwnerOfRow(counts, j - counts[u], u + 1)

FitTable(counts, mix, shape_of) ==
    [j \in 1..SumSeq(counts) |->
        AnswerRow([Id |-> j, PostTypeId |-> 2,
                   OwnerUserId |-> OwnerOfRow(counts, j, 1), Score |-> j % 2],
                  mix[(j % Len(mix)) + 1], shape_of)]

InitFit ==
    /\ pc = "frame"
    /\ tags_xml = [i \in 1..11 |-> TagRow(LongName(i), 1)]
    /\ TOP_TAGS = [i \in 1..11 |-> LongName(i)]
    /\ p = EmptyDict
    /\ nread = MaxPosts
    /\ body = <<>>
    /\ NothingFitted
    /\ \E counts \in SegmentCounts, mix \in FeatureMixes :
          LET owners == {u \in 1..4 : counts[u] > 0}
              shape_of == ShapesOf(FitProfiles(owners))
              rows == FitTable(counts, mix, shape_of)
          IN  /\ user_rep = [u \in owners |-> MIN_REPUTATION]
              /\ user_tags = FitProfiles(owners)
              /\ user_shape = shape_of
              /\ shape_counts = CountsOf(shape_of)
              /\ answer_df = rows
              /\ feats = IF rows = <<>> THEN EmptyDict ELSE rows[Len(rows)]

NextFit == BuildFrame \/ FitShape \/ PrintTable

SpecFit == InitFit /\ [][NextFit]_vars

(* ====================================================================== *)
(* Properties                                                              *)
(* ====================================================================== *)

(* The shares of a profile, stated on the mapping itself.                  *)
RECURSIVE TotalGain(_, _)
TotalGain(prof, keys) ==
    IF keys = {} THEN 0
    ELSE LET t == CHOOSE k \in keys : TRUE
         IN  prof[t] + TotalGain(prof, keys \ {t})

TopTag(prof) == CHOOSE t \in DOMAIN prof : \A k \in DOMAIN prof : prof[t] >= prof[k]

TopGain(prof) == prof[TopTag(prof)]

SecondGain(prof) ==
    LET others == DOMAIN prof \ {TopTag(prof)}
    IN  prof[CHOOSE t \in others : \A k \in others : prof[t] >= prof[k]]

ShareWithin(g, total, lo, hi) == lo * total <= 100 * g /\ 100 * g <= hi * total

(* How many of the five largest shares lie in [0.15, 0.25]: the shares     *)
(* above the band come first, then those inside it.                        *)
InBandOfTopFive(prof, total) ==
    LET above == Cardinality({t \in DOMAIN prof : 100 * prof[t] > 25 * total})
        inside == Cardinality({t \in DOMAIN prof : ShareWithin(prof[t], total, 15, 25)})
    IN  Min2(inside, Max2(5 - above, 0))

ExpectedShape(prof) ==
    LET total == TotalGain(prof, DOMAIN prof)
        tags == Cardinality(DOMAIN prof)
    IN  IF tags = 0 \/ total = 0 THEN None
        ELSE IF 100 * TopGain(prof) >= 90 * total THEN "I"
        ELSE IF ShareWithin(TopGain(prof), total, 50, 70) /\ tags >= 11 THEN "T"
        ELSE IF /\ tags >= 2
                /\ ShareWithin(TopGain(prof), total, 30, 45)
                /\ ShareWithin(SecondGain(prof), total, 30, 45)
                /\ 100 * (TopGain(prof) + SecondGain(prof)) >= 70 * total THEN "Pi"
        ELSE IF /\ InBandOfTopFive(prof, total) >= 3
                /\ InBandOfTopFive(prof, total) <= 5
                /\ 100 * TopGain(prof) <= 30 * total THEN "Comb"
        ELSE None

(* The shape the classification loop recorded for a user, None if none.    *)
RecordedShape(u) == IF u \in DOMAIN user_shape THEN user_shape[u] ELSE None

Ones(n) == [i \in 1..n |-> 1]

(* C1: once the classification loop has run, every profile carries the     *)
(* label of the first matching rule in the order I, T, Pi, Comb (all       *)
(* bounds inclusive) and no label when none matches or the total is zero;  *)
(* shares [0.90, 0.10] give I, [0.89, 0.11] do not, a top share of 0.50    *)
(* gives T with 11 tags and not with 10, and [0.35, 0.35, 0.30] gives Pi.  *)
C1_FirstMatchingRule ==
    pc = "answers" =>
        \A u \in DOMAIN user_tags :
            /\ RecordedShape(u) = ExpectedShape(user_tags[u])
            /\ user_tags[u] = ProfileOf(<<9, 1>>) => RecordedShape(u) = "I"
            /\ user_tags[u] = ProfileOf(<<89, 11>>) => RecordedShape(u) # "I"
            /\ user_tags[u] = ProfileOf(<<10>> \o Ones(10)) => RecordedShape(u) = "T"
            /\ user_tags[u] = ProfileOf(<<9>> \o Ones(9)) => RecordedShape(u) # "T"
            /\ user_tags[u] = ProfileOf(<<7, 7, 6>>) => RecordedShape(u) = "Pi"

(* C1 witness: a profile of exactly 11 tags whose top share is exactly     *)
(* 0.50 has been classified T.                                             *)
C1_Witness ==
    /\ pc = "answers"
    /\ 1 \in DOMAIN user_tags
    /\ user_tags[1] = ProfileOf(<<10>> \o Ones(10))
    /\ RecordedShape(1) = "T"

(* The number of the four rule conditions that hold of a profile.          *)
RulesHolding(prof) ==
    LET items == SortedGains(prof, DOMAIN prof)
        total == SumSeq(items)
    IN  Cardinality({r \in 1..4 :
            \/ r = 1 /\ RuleI(items, total)
            \/ r = 2 /\ RuleT(items, total)
            \/ r = 3 /\ RulePi(items, total)
            \/ r = 4 /\ RuleComb(items, total)})

(* C10: for every profile with positive total gain at most one of the four *)
(* rule conditions holds.                                                  *)
C10_RulesExclusive ==
    \A u \in DOMAIN user_tags :
        TotalGain(user_tags[u], DOMAIN user_tags[u]) > 0 => RulesHolding(user_tags[u]) <= 1

(* C10 witness: a classified profile on the border between two rules, its  *)
(* top share being exactly 0.30, satisfies one rule only.                  *)
C10_Witness ==
    /\ pc = "answers"
    /\ 1 \in DOMAIN user_tags
    /\ user_tags[1] = ProfileOf(<<6, 5, 5, 4>>)
    /\ RecordedShape(1) = "Comb"
    /\ RulesHolding(user_tags[1]) = 1

(* C2: every user with a profile is in the reputation index with a         *)
(* reputation of at least 100 (so never 50), every tag of a profile is in  *)
(* the allowlist, and every gain is a non-negative integer.                *)
C2_ProfileExclusivity ==
    \A u \in DOMAIN user_tags :
        /\ u \in DOMAIN user_rep
        /\ user_rep[u] >= 100
        /\ user_rep[u] # 50
        /\ \A t \in DOMAIN user_tags[u] :
              /\ \E i \in DOMAIN TOP_TAGS : TOP_TAGS[i] = t
              /\ user_tags[u][t] \in Nat

(* C2 witness: the second pass has just skipped a tagged post of a user    *)
(* outside the reputation index, while another user holds a profile.       *)
C2_Witness ==
    /\ pc = "posts"
    /\ user_tags # EmptyDict
    /\ Has(p, "OwnerUserId") /\ p.OwnerUserId \notin DOMAIN user_rep
    /\ Has(p, "Tags") /\ p.Tags = TagsAttr(<<TagA, TagB>>)
    /\ Get(p, "Score", 0) > 0
    /\ TagA \in Range(TOP_TAGS)
    /\ p.OwnerUserId \notin DOMAIN user_tags

(* Every row of the answer table belongs to a classified owner at or above *)
(* the reputation floor and carries that owner's shape.                    *)
RowsOfClassifiedOwners ==
    \A i \in DOMAIN answer_df :
        /\ answer_df[i].owner_id \in DOMAIN user_shape
        /\ answer_df[i].shape = user_shape[answer_df[i].owner_id]
        /\ answer_df[i].shape \in {"I", "T", "Pi", "Comb"}
        /\ answer_df[i].owner_id \in DOMAIN user_rep
        /\ user_rep[answer_df[i].owner_id] >= 100

(* C3: the answer table gains a row only for a post of PostTypeId 2 whose  *)
(* owner was classified, the row carries the owner's shape, and every      *)
(* classified owner has reputation at least 100; any other post leaves the *)
(* table as it was.                                                        *)
C3_RowsOnlyForClassifiedAnswers ==
    [][ /\ RowsOfClassifiedOwners'
        /\ (\A u \in DOMAIN user_shape' : u \in DOMAIN user_rep' /\ user_rep'[u] >= 100)
        /\ (pc = "answers" /\ pc' = "answers") =>
              IF /\ Get(p', "PostTypeId", 0) = 2
                 /\ Has(p', "OwnerUserId")
                 /\ p'.OwnerUserId \in DOMAIN user_shape
              THEN /\ Len(answer_df') <= Len(answer_df) + 1
                   /\ SubSeq(answer_df', 1, Len(answer_df)) = answer_df
                   /\ Len(answer_df') = Len(answer_df) + 1 =>
                         /\ answer_df'[Len(answer_df')].owner_id = p'.OwnerUserId
                         /\ answer_df'[Len(answer_df')].answer_id = p'.Id
              ELSE answer_df' = answer_df ]_vars

(* C3 witness: after an answer of a classified user produced a row, a      *)
(* question of a classified user has been read and produced none.          *)
C3_Witness ==
    /\ pc = "answers"
    /\ nread = 2
    /\ Len(answer_df) = 1
    /\ Get(p, "PostTypeId", 0) = 1
    /\ Has(p, "OwnerUserId") /\ p.OwnerUserId \in DOMAIN user_shape

(* The frame has been built: X, y and shapes hold the regression input.    *)
FrameBuilt == pc \in {"fit", "done"}

(* The value of the length indicator of a level in row i of X, or -1 when  *)
(* X has no such column.                                                   *)
LengthIndicator(i, level) ==
    IF <<"length", level>> \in DOMAIN X[i] THEN X[i][<<"length", level>>] ELSE -1

(* C4: the design matrix encodes the length bucket against Medium: one 0/1 *)
(* indicator for Long and one for Summarized, none for Medium, so a Medium *)
(* answer has both indicators 0; has_code, has_image and has_ref are 0/1   *)
(* columns.                                                                *)
C4_MediumIsReference ==
    FrameBuilt =>
        \A i \in DOMAIN X :
            /\ <<"length", "Medium">> \notin DOMAIN X[i]
            /\ "length" \in DOMAIN answer_df[i] =>
                  /\ LengthIndicator(i, "Long") =
                        (IF answer_df[i].length = "Long" THEN 1 ELSE 0)
                  /\ LengthIndicator(i, "Summarized") =
                        (IF answer_df[i].length = "Summarized" THEN 1 ELSE 0)
            /\ \A f \in {"has_code", "has_image", "has_ref"} :
                  \E c \in DOMAIN X[i] : c[1] = f /\ X[i][c] \in {0, 1}

(* The number of rows of a shape in the answer table.                      *)
RowsOfShape(sh) == Len(SelectSeq(answer_df, LAMBDA row : row.shape = sh))

(* C5: when the regression loop is over, a shape is a key of the results   *)
(* (and a row of the report) exactly when the table holds at least 100     *)
(* answers of that shape; while the loop runs no smaller segment is a key. *)
C5_SegmentOmission ==
    /\ \A sh \in DOMAIN results : RowsOfShape(sh) >= 100
    /\ pc = "done" =>
          \A sh \in {"I", "T", "Pi", "Comb"} :
              /\ sh \in DOMAIN results <=> RowsOfShape(sh) >= 100
              /\ sh \in DOMAIN table <=> RowsOfShape(sh) >= 100

(* C5 witness: a finished run whose table held 99 answers of one shape,    *)
(* absent from the report, and 100 of another, present in it.              *)
C5_Witness ==
    /\ pc = "done"
    /\ \E sh \in {"I", "T", "Pi", "Comb"} : RowsOfShape(sh) = 99 /\ sh \notin DOMAIN table
    /\ \E sh \in {"I", "T", "Pi", "Comb"} : RowsOfShape(sh) = 100 /\ sh \in DOMAIN table

(* C6: an answer of a classified user whose Body is missing or empty       *)
(* leaves the answer table as it was.                                      *)
C6_EmptyBodyExcluded ==
    [][ (/\ pc = "answers" /\ pc' = "answers"
         /\ IsParsed(p', user_shape)
         /\ Get(p', "Body", <<>>) = <<>>) => answer_df' = answer_df ]_vars

(* C7: with an empty tag file the allowlist is empty, no user gets a       *)
(* profile or a shape, no answer row is produced, and the run does not     *)
(* stop in an error.                                                       *)
C7_EmptyTagsTolerated ==
    tags_xml = <<>> =>
        /\ TOP_TAGS = <<>>
        /\ user_tags = EmptyDict
        /\ user_shape = EmptyDict
        /\ answer_df = <<>>
        /\ pc # "error"

(* Link targets as the claim reads them: an optional scheme, "//", a host  *)
(* and a path.                                                             *)
AfterScheme(link) ==
    IF link # <<>> /\ link[1] \in {HttpsTok, HttpTok} THEN Tail(link) ELSE link

HasScheme(link) == link # <<>> /\ link[1] \in {HttpsTok, HttpTok}

(* The host tokens that follow "//", up to the path.                       *)
HostOf(link) ==
    LET rest == AfterScheme(link)
        stops == {k \in 2..Len(rest) : rest[k] \notin {SiteTok, OtherHostTok}}
        end == IF stops = {} THEN Len(rest)
               ELSE (CHOOSE k \in stops : \A m \in stops : k <= m) - 1
    IN  IF rest = <<>> \/ rest[1] # SlashesTok THEN <<>>
        ELSE SubSeq(rest, 2, end)

WellFormed(link) ==
    LET rest == AfterScheme(link)
        after == SubSeq(rest, Len(HostOf(link)) + 2, Len(rest))
    IN  /\ HostOf(link) # <<>>
        /\ after = <<>> \/ after[1] \in {PathTok, SlashesTok}

PointsToSite(link) == WellFormed(link) /\ HostOf(link) = <<SiteTok>>

PointsElsewhere(link) ==
    WellFormed(link) /\ HasScheme(link) /\ HostOf(link) # <<SiteTok>>

(* C8: for a non-empty body, has_ref is false when every link points to    *)
(* the site's own host (scheme-relative, https or http), and true when     *)
(* some link is an absolute link to another host.                          *)
C8_ExternalReference ==
    (pc = "extracted" /\ body # <<>>) =>
        LET links == LinksFrom(body, 1)
        IN  /\ (\A k \in DOMAIN links : PointsToSite(links[k])) => ~feats.has_ref
            /\ (\E k \in DOMAIN links : PointsElsewhere(links[k])) => feats.has_ref

(* The count of a tag row, and the place of row i in a stable ordering by  *)
(* count descending.                                                       *)
CountOf(i) == IF "Count" \in DOMAIN tags_xml[i] THEN tags_xml[i].Count ELSE 0

StableRank(i) ==
    1 + Cardinality({j \in DOMAIN tags_xml : CountOf(j) > CountOf(i)})
      + Cardinality({j \in 1..(i - 1) : CountOf(j) = CountOf(i)})

OrderedStably ==
    \A i \in DOMAIN tags_xml :
        StableRank(i) <= 100 =>
            /\ StableRank(i) \in DOMAIN TOP_TAGS
            /\ TOP_TAGS[StableRank(i)] = tags_xml[i].TagName

DistinctTagNames == {tags_xml[i].TagName : i \in DOMAIN tags_xml}

(* C9 as stated: the allowlist has min(100, number of distinct tag names)  *)
(* entries, ordered by count descending, stable on ties.                   *)
C9_LengthByDistinctTags ==
    pc # "load_tags" =>
        /\ Len(TOP_TAGS) = Min2(100, Cardinality(DistinctTagNames))
        /\ OrderedStably

(* C9 amended: the allowlist has min(100, number of tag records) entries,  *)
(* one per record even when records repeat a name, ordered by count        *)
(* descending, records of equal count keeping their input order.           *)
C9_LengthByRecords ==
    pc # "load_tags" =>
        /\ Len(TOP_TAGS) = Min2(100, Len(tags_xml))
        /\ OrderedStably

(* C9 witness: a tag file of more than 100 records with tied counts has    *)
(* been cut to 100 names.                                                  *)
C9_Witness ==
    /\ pc = "users"
    /\ Len(tags_xml) > 100
    /\ Len(TOP_TAGS) = 100
    /\ \E i, j \in DOMAIN tags_xml : i < j /\ CountOf(i) = CountOf(j) /\ StableRank(j) <= 100

====
